---------------------------- MODULE Spec2Model ----------------------------
(***************************************************************************)
(* Model of python/mcp_manager_sse.py: the MCP cluster manager             *)
(* (MCPManager), its health monitor loop, its per-instance worker          *)
(* (dispatcher) loops, and SSEClient.execute_task.                         *)
(*                                                                         *)
(* Threads are interleaved at the granularity of the blocking points of    *)
(* the code (remote calls, sleeps, queue access): one model step is the    *)
(* run of Python statements between two such points.                       *)
(***************************************************************************)
EXTENDS Integers, Sequences, FiniteSets, TLC

(***************************************************************************)
(* Bounds of the model.                                                    *)
(***************************************************************************)
\* number of tasks submitted in one behaviour
MaxTasks == 2
\* number of start_monitoring calls that create threads (thread generations)
MaxStarts == 2
\* number of clock ticks in one behaviour of the health monitor
MaxTicks == 30
\* longest action sequence of a task in the execute_task specification
MaxActions == 3
\* number of method calls made on one SSEClient object
MaxCalls == 3
\* max_concurrent_per_instance of the manager with a limit above one
ConcurrencyLimit == 2
\* most lines of a response body, most items of a content array
MaxLines == 3
MaxItems == 2

(***************************************************************************)
(* Program constants.                                                      *)
(***************************************************************************)
\* check_interval of a healthy instance (line 555)
HealthyInterval == 30
\* check_interval of an unhealthy instance (line 557)
UnhealthyInterval == 15
\* check_interval of an instance of unknown status (line 559)
UnknownInterval == 10
\* failure_threshold while the instance is healthy (line 588)
HealthyThreshold == 5
\* failure_threshold while the instance is not healthy (line 588)
UnhealthyThreshold == 3
\* time.sleep(5) of the monitor loop: the grain of the model's clock (line 599)
MonitorPeriod == 5
\* MCPInstance.last_check before the first probe (line 48)
InitialLastCheck == 0
\* TestTask.start_time / end_time before they are stamped: None (lines 37-38)
NoTime == -1

\* the instance ids, in the order add_instance registers them
IdOrder == <<"mcp-1", "mcp-2">>
InstanceIds == {IdOrder[k] : k \in 1..Len(IdOrder)}
\* TestTask.assigned_instance before the claim: None (line 39)
NoInstance == "None"
\* the worker's local variable task when no task is held
NoTask == 0

\* the first reading of time.time(): later than every check interval
Epoch == HealthyInterval

(***************************************************************************)
(* Actions of a task (dicts with a 'type' key and kind-specific keys).     *)
(***************************************************************************)
Action(t, ks) == [type |-> t, keys |-> ks]
Navigate == Action("navigate", {"url"})
NavigateNoUrl == Action("navigate", {})
Wait == Action("wait", {"time"})
HealthCheck == Action("health_check", {})
ListTools == Action("list_tools", {})
Hover == Action("hover", {})
Screenshot == Action("screenshot", {})
Snapshot == Action("snapshot", {})

\* what a remote call of an action returns: None, a falsy value ({} or []),
\* or a truthy value
RemoteOut == {"none", "empty", "value"}

\* the kinds that map to one remote invocation
RemoteKinds == {"navigate", "screenshot", "snapshot", "click", "type", "close", "list_tools"}

\* the kinds that hand the value of their remote call to the artifact store
StoringKinds == {"screenshot", "snapshot"}

\* what becomes of the artifact-storage calls of an action: none is made (the
\* store module is missing, or the value holds nothing to save), the artifact is
\* saved, the store reports a failure, or a call raises
StoreOut == {"skipped", "saved", "failed", "raised"}

\* the keys an action kind reads with action[...] (KeyError when missing)
RequiredKeys(type) ==
    CASE type = "navigate" -> {"url"}
      [] type = "click" -> {"ref"}
      [] type = "type" -> {"ref", "text"}
      [] OTHER -> {}

\* mutant: an action of an unknown kind is recorded as succeeded
ActionResult_unknown_passes(a, out, store) ==
    IF a.type \in RemoteKinds
      THEN [action |-> a.type, success |-> (out = "value"),
            data |-> IF out = "value"
                       THEN IF a.type \in StoringKinds /\ store = "saved"
                              THEN "result with minio url" ELSE "result"
                       ELSE "None"]
    ELSE IF a.type = "wait"
      THEN [action |-> a.type, success |-> TRUE, data |-> "completed"]
    ELSE IF a.type = "health_check"
      THEN [action |-> a.type, success |-> (out = "value"),
            data |-> IF out = "value" THEN "health check passed" ELSE "health check failed"]
    ELSE [action |-> a.type, success |-> TRUE, data |-> "unknown action type"]

\* mutant: a screenshot or snapshot succeeds only if its artifact was saved
ActionResult_needs_store(a, out, store) ==
    IF a.type \in RemoteKinds
      THEN [action |-> a.type,
            success |-> (out = "value" /\ (a.type \in StoringKinds => store = "saved")),
            data |-> IF out = "value"
                       THEN IF a.type \in StoringKinds /\ store = "saved"
                              THEN "result with minio url" ELSE "result"
                       ELSE "None"]
    ELSE IF a.type = "wait"
      THEN [action |-> a.type, success |-> TRUE, data |-> "completed"]
    ELSE IF a.type = "health_check"
      THEN [action |-> a.type, success |-> (out = "value"),
            data |-> IF out = "value" THEN "health check passed" ELSE "health check failed"]
    ELSE [action |-> a.type, success |-> FALSE, data |-> "unknown action type"]

\* one entry of results: {"action": ..., "success": ..., "data": ...}. A saved
\* artifact adds its url to the data (lines 319-322, 386-411); no other storage
\* outcome leaves a trace (lines 333-336, 412-415)
ActionResult(a, out, store) ==
    IF a.type \in RemoteKinds
      THEN [action |-> a.type, success |-> (out = "value"),
            data |-> IF out = "value"
                       THEN IF a.type \in StoringKinds /\ store = "saved"
                              THEN "result with minio url" ELSE "result"
                       ELSE "None"]
    ELSE IF a.type = "wait"
      THEN [action |-> a.type, success |-> TRUE, data |-> "completed"]
    ELSE IF a.type = "health_check"
      THEN [action |-> a.type, success |-> (out = "value"),
            data |-> IF out = "value" THEN "health check passed" ELSE "health check failed"]
    ELSE [action |-> a.type, success |-> FALSE, data |-> "unknown action type"]

RECURSIVE RunActions(_, _, _, _, _)
\* the for loop of execute_task from action k on; results so far in rs
RunActions(actions, outs, stores, k, rs) ==
    IF k > Len(actions)
      THEN IF \E j \in 1..Len(rs) : ~rs[j].success
             THEN [keys |-> {"success", "error", "results"}, success |-> FALSE,
                   error |-> "partial failure", results |-> rs]
             ELSE [keys |-> {"success", "results"}, success |-> TRUE,
                   error |-> "", results |-> rs]
    ELSE IF ~(RequiredKeys(actions[k].type) \subseteq actions[k].keys)
      THEN [keys |-> {"success", "error", "results"}, success |-> FALSE,
            error |-> "exception", results |-> rs]
    ELSE RunActions(actions, outs, stores, k + 1,
                    Append(rs, ActionResult(actions[k], outs[k], stores[k])))

\* SSEClient.execute_task: the result dict of a task whose remote calls return
\* outs and whose artifact-storage calls end as stores
execute_task(actions, outs, stores) == RunActions(actions, outs, stores, 1, <<>>)

\* the storage outcomes possible when the remote calls return outs: a storage
\* call is made only for the truthy value of a screenshot or snapshot
StoreOutcomes(actions, outs) ==
    {st \in [1..Len(actions) -> StoreOut] :
        \A k \in 1..Len(actions) :
            (actions[k].type \notin StoringKinds \/ outs[k] # "value")
                => st[k] = "skipped"}

\* task.result: None, and the dict of a failed dispatch handshake
NoneResult == [keys |-> {}, success |-> FALSE, error |-> "", results |-> <<>>]
InitErrorResult == [keys |-> {"error"}, success |-> FALSE,
                    error |-> "cannot initialize connection", results |-> <<>>]

(***************************************************************************)
(* SSEClient: the session token, the headers, the connection pool of the   *)
(* requests session, and the requests the object has issued.               *)
(***************************************************************************)
\* no mcp-session-id: self.session_id is None, the header is absent
NoToken == "None"
\* the session id a server sends in the mcp-session-id response header
ServerToken == "session-1"

\* SSEClient(url): lines 58-65. header is the mcp-session-id entry of
\* self.headers; captured is the last token a handshake has stored; pooled tells
\* whether the requests session holds connections; sent lists the requests
\* issued, calls the methods called, ret is what the last call returned and
\* raised whether it raised
NewClient ==
    [session_id |-> NoToken, header |-> NoToken, captured |-> NoToken,
     pooled |-> FALSE, sent |-> << >>, calls |-> << >>, ret |-> "None",
     raised |-> FALSE]

\* self.session.post(self.url, json=..., headers=self.headers, ...)
Post(c, kind) ==
    [c EXCEPT !.pooled = TRUE,
              !.sent = Append(@, [kind |-> kind, carried |-> c.header,
                                  captured |-> c.captured])]

\* line 137: self.session.get(url, timeout=2), without the headers argument
Get(c, kind) ==
    [c EXCEPT !.pooled = TRUE,
              !.sent = Append(@, [kind |-> kind, carried |-> NoToken,
                                  captured |-> c.captured])]

\* the answers to the handshake: no usable answer (or an exception), a result
\* without a session header, a result with one
InitializeAnswers == {"fail", "ok", "ok_token"}

\* lines 119-130
send_initialized(c) == Post(c, "notifications/initialized")

\* lines 82-117
initialize(c, resp) ==
    LET c1 == [Post(c, "initialize") EXCEPT !.calls = Append(@, "initialize"),
                                             !.raised = FALSE]
    IN IF resp = "fail"
         THEN [c1 EXCEPT !.ret = "False"]
         ELSE LET got == IF resp = "ok_token" THEN ServerToken ELSE NoToken
                  c2 == [c1 EXCEPT !.session_id = got,
                                   !.header = IF got # NoToken THEN got ELSE @,
                                   !.captured = IF got # NoToken THEN got ELSE @]
              IN [send_initialized(c2) EXCEPT !.ret = "True"]

\* the tier of the probe that succeeds, if any
ProbeAnswers == {"tier1", "tier2", "tier3", "none"}

\* lines 132-186
health_check(c, tier) ==
    LET c0 == [c EXCEPT !.calls = Append(@, "health_check"), !.raised = FALSE]
        c1 == Get(c0, "GET /")
        c2 == Post(c1, "initialize")
        c3 == Post(c2, "tools/list")
    IN IF tier = "tier1" THEN [c1 EXCEPT !.ret = "True"]
       ELSE IF tier = "tier2" THEN [c2 EXCEPT !.ret = "True"]
       ELSE IF tier = "tier3" THEN [c3 EXCEPT !.ret = "True"]
       ELSE [c3 EXCEPT !.ret = "False"]

\* how one tier of the probe ends: the answer passes the tier's test, it does
\* not, or the request raises
TierAnswers == {"ok", "fail", "raises"}
Tiers == 1..3

\* mutant: the tiers without their own try/except: a tier that raises ends the
\* probe in the outer handler of line 184
health_check_tiers_outer_only(c, answers) ==
    LET c0 == [c EXCEPT !.calls = Append(@, "health_check"), !.raised = FALSE]
        c1 == Get(c0, "GET /")
        c2 == Post(c1, "initialize")
        c3 == Post(c2, "tools/list")
    IN IF answers[1] = "ok" THEN [c1 EXCEPT !.ret = "True"]
       ELSE IF answers[1] = "raises" THEN [c1 EXCEPT !.ret = "False"]
       ELSE IF answers[2] = "ok" THEN [c2 EXCEPT !.ret = "True"]
       ELSE IF answers[2] = "raises" THEN [c2 EXCEPT !.ret = "False"]
       ELSE IF answers[3] = "ok" THEN [c3 EXCEPT !.ret = "True"]
       ELSE [c3 EXCEPT !.ret = "False"]

\* lines 132-186, tier by tier: the GET of lines 136-141, the initialize POST of
\* lines 144-163 and the tools/list POST of lines 166-181, each inside its own
\* try/except; answers[k] is how tier k ends if it is tried
health_check_tiers(c, answers) ==
    LET c0 == [c EXCEPT !.calls = Append(@, "health_check"), !.raised = FALSE]
        c1 == Get(c0, "GET /")
        c2 == Post(c1, "initialize")
        c3 == Post(c2, "tools/list")
    IN IF answers[1] = "ok" THEN [c1 EXCEPT !.ret = "True"]
       ELSE IF answers[2] = "ok" THEN [c2 EXCEPT !.ret = "True"]
       ELSE IF answers[3] = "ok" THEN [c3 EXCEPT !.ret = "True"]
       ELSE [c3 EXCEPT !.ret = "False"]

\* lines 188-208
list_tools(c, out) ==
    [Post(c, "tools/list") EXCEPT !.calls = Append(@, "list_tools"),
                                  !.raised = FALSE, !.ret = out]

\* lines 210-266
call_tool(c, out) ==
    [Post(c, "tools/call") EXCEPT !.calls = Append(@, "call_tool"),
                                  !.raised = FALSE,
                                  !.ret = IF out = "value" THEN "value" ELSE "none"]

\* mutant: close() without its try/except
close_unguarded(c, inner) ==
    [c EXCEPT !.calls = Append(@, "close"), !.ret = "None",
              !.raised = inner,
              !.pooled = IF inner THEN @ ELSE FALSE]

\* lines 491-496: self.session.close() releases the connections; when it raises
\* (inner) the exception is swallowed
close(c, inner) ==
    [c EXCEPT !.calls = Append(@, "close"), !.ret = "None",
              !.raised = FALSE,
              !.pooled = IF inner THEN @ ELSE FALSE]

(***************************************************************************)
(* The wire format: the body of a response is a sequence of lines, a       *)
(* decoded message is a JSON-RPC response.                                 *)
(***************************************************************************)
\* the JSON objects a data line can carry, and the lines of a body: a data line
\* with a JSON object, a data line whose rest is not JSON, any other line
Objects == {"A", "B"}
DataLine(obj) == [prefix |-> "data: ", body |-> obj]
BadDataLine == [prefix |-> "data: ", body |-> "not json"]
OtherLine == [prefix |-> "event: ", body |-> "message"]
Lines == {DataLine(obj) : obj \in Objects} \cup {BadDataLine, OtherLine}

\* the sequences over S of length at most n
SeqUpTo(S, n) == UNION {[1..k -> S] : k \in 0..n}

\* json.loads(data_str) succeeds
Parses(line) == line.body \in Objects

RECURSIVE parse_sse_response(_)
\* SSEClient.parse_sse_response: the for loop returns at the first line that
\* starts with "data: ", with its object or, when it does not parse, with None
parse_sse_response(lines) ==
    IF lines = << >> THEN "None"
    ELSE IF Head(lines).prefix = "data: "
      THEN IF Parses(Head(lines)) THEN Head(lines).body ELSE "None"
    ELSE parse_sse_response(Tail(lines))

\* the items of a content array, and the values of structuredContent: the key is
\* missing, an empty object, an object with members
TextItem(s) == [type |-> "text", text |-> s]
ImageItem == [type |-> "image", text |-> ""]
Items == {TextItem("a"), TextItem("b"), ImageItem}
StructuredValues == {"None", "{}", "{rows}"}

\* bool(v) of Python for a value of structuredContent
Truthy(v) == v \notin {"None", "{}"}

\* the decoded messages: None, an error response, a response with a result
ToolResults(maxItems) ==
    [isError : BOOLEAN, content : SeqUpTo(Items, maxItems),
     structuredContent : StructuredValues]
NoneMessage == [kind |-> "None"]
ErrorMessage == [kind |-> "error"]
ResultMessage(tool_result) == [kind |-> "result", result |-> tool_result]
Messages(maxItems) ==
    {NoneMessage, ErrorMessage}
        \cup {ResultMessage(r) : r \in ToolResults(maxItems)}

RECURSIVE TextContent(_)
\* lines 253-256: the texts of the items of type text, in the order of content
TextContent(content) ==
    IF content = << >> THEN << >>
    ELSE IF Head(content).type = "text"
      THEN <<Head(content).text>> \o TextContent(Tail(content))
    ELSE TextContent(Tail(content))

RECURSIVE Join(_)
\* "\n".join(texts)
Join(texts) ==
    IF Len(texts) <= 1 THEN texts
    ELSE <<Head(texts), "\n">> \o Join(Tail(texts))

\* what call_tool returns
ReturnNone == [kind |-> "None"]
ReturnStructured(v) == [kind |-> "structuredContent", value |-> v]
ReturnText(texts) == [kind |-> "text", value |-> Join(texts)]
ReturnEnvelope(tool_result) == [kind |-> "tool_result", value |-> tool_result]

\* mutant: the text of the content array is preferred to structuredContent
call_tool_return_text_first(result) ==
    IF result.kind # "result" THEN ReturnNone
    ELSE LET tool_result == result.result
         IN IF tool_result.isError THEN ReturnNone
            ELSE IF TextContent(tool_result.content) # << >>
              THEN ReturnText(TextContent(tool_result.content))
            ELSE IF Truthy(tool_result.structuredContent)
              THEN ReturnStructured(tool_result.structuredContent)
            ELSE ReturnEnvelope(tool_result)

\* lines 226-263 of call_tool: the value returned for the decoded message
call_tool_return(result) ==
    IF result.kind # "result" THEN ReturnNone
    ELSE LET tool_result == result.result
         IN IF tool_result.isError THEN ReturnNone
            ELSE IF Truthy(tool_result.structuredContent)
              THEN ReturnStructured(tool_result.structuredContent)
            ELSE IF TextContent(tool_result.content) # << >>
              THEN ReturnText(TextContent(tool_result.content))
            ELSE ReturnEnvelope(tool_result)

\* line 223-225: how the POST of call_tool ends: requests raises (connection
\* refused, timeout), or a response arrives with a status other than 200 or
\* with status 200
Transports == {"raises", "500", "200"}

\* mutant: call_tool without its try/except
call_tool_value_unguarded(transport, lines, result) ==
    IF transport = "raises" THEN [kind |-> "raised"]
    ELSE IF transport # "200" THEN ReturnNone
    ELSE IF parse_sse_response(lines) = "None" THEN ReturnNone
    ELSE call_tool_return(result)

\* SSEClient.call_tool: the value returned when the POST ends as transport, the
\* body of the response is lines and the object of its data line decodes to
\* result. An exception of the POST is caught at line 263
call_tool_value(transport, lines, result) ==
    IF transport = "raises" THEN ReturnNone
    ELSE IF transport # "200" THEN ReturnNone
    ELSE IF parse_sse_response(lines) = "None" THEN ReturnNone
    ELSE call_tool_return(result)

\* no call made yet
Unset == [kind |-> "unset"]
NoWire == [response |-> << >>, parsed |-> "unset", transport |-> "200",
           message |-> NoneMessage, returned |-> Unset,
           tiers |-> [k \in Tiers |-> "fail"],
           actions |-> << >>, outs |-> << >>, stores |-> << >>,
           executed |-> FALSE, result |-> NoneResult]

(***************************************************************************)
(* State.                                                                  *)
(***************************************************************************)
VARIABLES
    max_concurrent_per_instance, \* MCPManager.max_concurrent_per_instance
    instances,        \* MCPManager.instances: id -> MCPInstance
    task_queue,       \* MCPManager.task_queue: the ids of the queued tasks
    completed_tasks,  \* MCPManager.completed_tasks: the ids of the logged tasks
    monitoring,       \* MCPManager.monitoring
    tasks,            \* the TestTask objects created by the submitters, by id
    monitor,          \* the _monitor_loop thread of each start_monitoring call
    worker,           \* the _worker_loop threads of each start_monitoring call
    starts,           \* the number of start_monitoring calls that started threads
    joining,          \* the caller is inside the joins of stop_monitoring
    now,              \* time.time()
    backend,          \* how the server behind each instance url answers
    probe_log,        \* history: the last probe of each instance
    submit_log,       \* history: the instances unhealthy when each task was submitted
    client,           \* an SSEClient object and the requests it has issued
    wire              \* what the server sends to one client (a response body,
                      \* a decoded message, the answers to the tiers of a
                      \* probe, the values of the remote calls of a task) and
                      \* what the client's methods return for it

vars == <<max_concurrent_per_instance, instances, task_queue, completed_tasks,
          monitoring, tasks, monitor, worker, starts, joining, now, backend,
          probe_log, submit_log, client, wire>>

Generations == 1..MaxStarts
Registered == DOMAIN instances
TaskIds == DOMAIN tasks

\* MCPInstance(id=..., url=..., port=...): the dataclass defaults
NewInstance ==
    [status |-> "unknown", last_check |-> InitialLastCheck, active_tasks |-> 0,
     completed_tasks |-> 0, failed_tasks |-> 0, health_check_failures |-> 0]

\* TestTask(id=..., name=..., url=..., actions=...): the dataclass defaults
NewTask(actions) ==
    [actions |-> actions, status |-> "pending", result |-> NoneResult,
     start_time |-> NoTime, end_time |-> NoTime, assigned_instance |-> NoInstance]

NoMonitor == [pc |-> "none", idx |-> 0, len |-> 0, current_time |-> 0]
NoWorker == [pc |-> "none", task |-> NoTask]

\* the answers a server can give to a handshake or a probe
Answers(i) ==
    CASE backend[i] = "up" -> {TRUE}
      [] backend[i] = "down" -> {FALSE}
      [] OTHER -> BOOLEAN

\* history of an instance that has not been probed
NoProbe ==
    [probed |-> FALSE, ok |-> FALSE, status |-> "unknown", failures |-> 0,
     streak |-> 0, clean |-> -1, method |-> "None"]

Init ==
    /\ max_concurrent_per_instance = 1
    /\ instances = << >>
    /\ task_queue = << >>
    /\ completed_tasks = << >>
    /\ monitoring = FALSE
    /\ tasks = << >>
    /\ monitor = [g \in Generations |-> NoMonitor]
    /\ worker = [g \in Generations |-> [i \in InstanceIds |-> NoWorker]]
    /\ starts = 0
    /\ joining = FALSE
    /\ now = Epoch
    /\ backend = [i \in InstanceIds |-> "flaky"]
    /\ probe_log = [i \in InstanceIds |-> NoProbe]
    /\ submit_log = << >>
    /\ client = NewClient
    /\ wire = NoWire

(***************************************************************************)
(* The manager's operations, called by the controlling thread.             *)
(***************************************************************************)
\* add_instance(instance_id, url, port) of an id not yet registered
add_instance(maxInstances) ==
    /\ ~joining
    /\ Cardinality(Registered) < maxInstances
    /\ LET id == IdOrder[Cardinality(Registered) + 1]
       IN instances' = [i \in Registered \cup {id} |->
                           IF i = id THEN NewInstance ELSE instances[i]]
    /\ UNCHANGED <<max_concurrent_per_instance, task_queue, completed_tasks,
                   monitoring, tasks, monitor, worker, starts, joining, now, backend, probe_log, submit_log, client, wire>>

\* start_monitoring(): a no-op while monitoring; else one monitor thread and one
\* worker thread per registered instance
start_monitoring(maxStarts) ==
    /\ ~joining
    /\ IF monitoring
         THEN UNCHANGED <<monitoring, monitor, worker, starts>>
         ELSE /\ starts < maxStarts
              /\ monitoring' = TRUE
              /\ starts' = starts + 1
              /\ monitor' = [monitor EXCEPT ![starts + 1] =
                                [pc |-> "while", idx |-> 0, len |-> 0, current_time |-> 0]]
              /\ worker' = [worker EXCEPT ![starts + 1] =
                                [i \in InstanceIds |->
                                    IF i \in Registered
                                      THEN [pc |-> "while", task |-> NoTask]
                                      ELSE NoWorker]]
    /\ UNCHANGED <<max_concurrent_per_instance, instances, task_queue,
                   completed_tasks, tasks, joining, now, backend, probe_log, submit_log, client, wire>>

\* stop_monitoring(), up to its joins: the flag is cleared
stop_monitoring ==
    /\ ~joining
    /\ monitoring' = FALSE
    /\ joining' = TRUE
    /\ UNCHANGED <<max_concurrent_per_instance, instances, task_queue,
                   completed_tasks, tasks, monitor, worker, starts, now, backend, probe_log, submit_log, client, wire>>

\* the joins of stop_monitoring return: each joined thread (monitor_thread and
\* worker_threads hold the threads of the last start) has exited, or its join
\* timed out after 5 s, which needs the thread to be inside a remote call
stop_monitoring_return ==
    /\ joining
    /\ starts > 0 =>
          /\ monitor[starts].pc \in {"none", "probe"}
          /\ \A i \in InstanceIds : worker[starts][i].pc \in {"none", "run"}
    /\ joining' = FALSE
    /\ UNCHANGED <<max_concurrent_per_instance, instances, task_queue,
                   completed_tasks, monitoring, tasks, monitor, worker, starts,
                   now, backend, probe_log, submit_log, client, wire>>

\* mutant: the task is not put into the queue
enqueue_drops(queue, t) == queue

\* mutant: the task is put at the front of the queue
enqueue_front(queue, t) == <<t>> \o queue

\* line 664: the queue after put(task)
enqueue(queue, t) == Append(queue, t)

\* submit_task(task) of a task the submitter has just created
submit_task(shapes, maxTasks) ==
    /\ Len(tasks) < maxTasks
    /\ \E actions \in shapes :
          /\ tasks' = Append(tasks, NewTask(actions))
          /\ task_queue' = enqueue(task_queue, Len(tasks) + 1)
    /\ UNCHANGED <<max_concurrent_per_instance, instances, completed_tasks,
                   monitoring, monitor, worker, starts, joining, now, backend,
                   probe_log, client, wire>>

\* history: the instances that were unhealthy when the task was submitted
record_submit ==
    submit_log' = Append(submit_log,
                         {i \in Registered : instances[i].status = "unhealthy"})

\* get_status(): the numbers reported for the tasks
queue_size == Len(task_queue)
LogCount(status) ==
    Cardinality({k \in 1..Len(completed_tasks) : tasks[completed_tasks[k]].status = status})
status_completed_tasks == LogCount("completed")
status_failed_tasks == LogCount("failed")

\* time passes: step seconds, at most maxTicks times in a behaviour
Tick(step, maxTicks) ==
    /\ now < Epoch + step * maxTicks
    /\ now' = now + step
    /\ UNCHANGED <<max_concurrent_per_instance, instances, task_queue,
                   completed_tasks, monitoring, tasks, monitor, worker, starts,
                   joining, backend, probe_log, submit_log, client, wire>>

(***************************************************************************)
(* _monitor_loop.                                                          *)
(***************************************************************************)
\* check_interval of lines 554-559
check_interval(status) ==
    CASE status = "healthy" -> HealthyInterval
      [] status = "unhealthy" -> UnhealthyInterval
      [] OTHER -> UnknownInterval

\* mutant: the threshold of an unhealthy instance is used for every status
failure_threshold_flat(status) == UnhealthyThreshold

\* failure_threshold of line 588
failure_threshold(status) ==
    IF status = "healthy" THEN HealthyThreshold ELSE UnhealthyThreshold

\* lines 568-580: the client method the monitor calls on the instance
probe_method(status) ==
    IF status = "unknown" THEN "initialize" ELSE "health_check"

\* mutant: a failed handshake leaves an instance of unknown status unknown
health_update_stays_unknown(inst, ok) ==
    IF inst.status = "unknown"
      THEN IF ok
             THEN [inst EXCEPT !.status = "healthy", !.health_check_failures = 0]
             ELSE [inst EXCEPT !.health_check_failures = @ + 1]
    ELSE IF ok
      THEN IF inst.status # "healthy"
             THEN [inst EXCEPT !.status = "healthy", !.health_check_failures = 0]
             ELSE inst
    ELSE [inst EXCEPT !.health_check_failures = @ + 1,
                      !.status = IF inst.health_check_failures + 1
                                      >= failure_threshold(inst.status)
                                   THEN "unhealthy" ELSE @]

\* mutant: a failed probe of an unhealthy instance makes its status unknown
health_update_forgets(inst, ok) ==
    IF inst.status = "unknown"
      THEN IF ok
             THEN [inst EXCEPT !.status = "healthy", !.health_check_failures = 0]
             ELSE [inst EXCEPT !.status = "unhealthy",
                               !.health_check_failures = @ + 1]
    ELSE IF ok
      THEN IF inst.status # "healthy"
             THEN [inst EXCEPT !.status = "healthy", !.health_check_failures = 0]
             ELSE inst
    ELSE [inst EXCEPT !.health_check_failures = @ + 1,
                      !.status = IF inst.status = "unhealthy" THEN "unknown"
                                 ELSE IF inst.health_check_failures + 1
                                           >= failure_threshold(inst.status)
                                   THEN "unhealthy" ELSE @]

\* mutant: a successful probe promotes the instance but keeps its counter
health_update_keeps_counter(inst, ok) ==
    IF inst.status = "unknown"
      THEN IF ok
             THEN [inst EXCEPT !.status = "healthy", !.health_check_failures = 0]
             ELSE [inst EXCEPT !.status = "unhealthy",
                               !.health_check_failures = @ + 1]
    ELSE IF ok
      THEN [inst EXCEPT !.status = "healthy"]
    ELSE [inst EXCEPT !.health_check_failures = @ + 1,
                      !.status = IF inst.health_check_failures + 1
                                      >= failure_threshold(inst.status)
                                   THEN "unhealthy" ELSE @]

\* lines 568-591: the instance after a probe that answered ok. An instance of
\* unknown status is probed with initialize(), any other with health_check()
health_update(inst, ok) ==
    IF inst.status = "unknown"
      THEN IF ok
             THEN [inst EXCEPT !.status = "healthy", !.health_check_failures = 0]
             ELSE [inst EXCEPT !.status = "unhealthy",
                               !.health_check_failures = @ + 1]
    ELSE IF ok
      THEN IF inst.status # "healthy"
             THEN [inst EXCEPT !.status = "healthy", !.health_check_failures = 0]
             ELSE inst
    ELSE [inst EXCEPT !.health_check_failures = @ + 1,
                      !.status = IF inst.health_check_failures + 1
                                      >= failure_threshold(inst.status)
                                   THEN "unhealthy" ELSE @]

\* line 546 (and the sleep of line 599 before it): the loop ends when the flag is
\* cleared, else the for loop over self.instances.items() begins
monitor_while(g) ==
    /\ monitor[g].pc = "while"
    /\ monitor' = [monitor EXCEPT ![g] =
                     IF monitoring
                       THEN [pc |-> "for", idx |-> 0, len |-> Cardinality(Registered),
                             current_time |-> 0]
                       ELSE NoMonitor]
    /\ UNCHANGED <<max_concurrent_per_instance, instances, task_queue,
                   completed_tasks, monitoring, tasks, worker, starts, joining,
                   now, backend, probe_log, submit_log, client, wire>>

\* mutant: the RuntimeError of a dict that changed size ends the thread
monitor_for_dies(g) ==
    /\ monitor[g].pc = "for"
    /\ LET m == monitor[g]
           id == IdOrder[m.idx + 1]
       IN IF Cardinality(Registered) # m.len
            THEN monitor' = [monitor EXCEPT ![g] = NoMonitor]
          ELSE IF m.idx = m.len
            THEN monitor' = [monitor EXCEPT ![g] = [m EXCEPT !.pc = "while"]]
          ELSE IF now - instances[id].last_check < check_interval(instances[id].status)
            THEN monitor' = [monitor EXCEPT ![g] = [m EXCEPT !.idx = @ + 1]]
          ELSE monitor' = [monitor EXCEPT ![g] =
                              [m EXCEPT !.pc = "probe", !.current_time = now]]
    /\ UNCHANGED <<max_concurrent_per_instance, instances, task_queue,
                   completed_tasks, monitoring, tasks, worker, starts, joining,
                   now, backend, probe_log, submit_log, client, wire>>

\* lines 548-566: the next instance of the for loop, and whether it is due. A dict
\* that changed size during the iteration raises RuntimeError (caught at line 596)
monitor_for(g) ==
    /\ monitor[g].pc = "for"
    /\ LET m == monitor[g]
           id == IdOrder[m.idx + 1]
       IN IF Cardinality(Registered) # m.len \/ m.idx = m.len
            THEN monitor' = [monitor EXCEPT ![g] = [m EXCEPT !.pc = "while"]]
          ELSE IF now - instances[id].last_check < check_interval(instances[id].status)
            THEN monitor' = [monitor EXCEPT ![g] = [m EXCEPT !.idx = @ + 1]]
          ELSE monitor' = [monitor EXCEPT ![g] =
                              [m EXCEPT !.pc = "probe", !.current_time = now]]
    /\ UNCHANGED <<max_concurrent_per_instance, instances, task_queue,
                   completed_tasks, monitoring, tasks, worker, starts, joining,
                   now, backend, probe_log, submit_log, client, wire>>

\* lines 566-594: the probe of the instance, the update of its health fields and
\* of last_check
monitor_probe(g, ok) ==
    /\ monitor[g].pc = "probe"
    /\ LET m == monitor[g]
           id == IdOrder[m.idx + 1]
       IN /\ ok \in Answers(id)
          /\ instances' = [instances EXCEPT ![id] =
                              [health_update(@, ok) EXCEPT
                                  !.last_check = m.current_time]]
          /\ monitor' = [monitor EXCEPT ![g] =
                            [m EXCEPT !.pc = "for", !.idx = @ + 1, !.current_time = 0]]
    /\ UNCHANGED <<max_concurrent_per_instance, task_queue, completed_tasks,
                   monitoring, tasks, worker, starts, joining, now, backend,
                   submit_log, client, wire>>

\* history: what the probe of monitor g found and answered. streak counts the
\* failed probes since the last successful one; clean counts them since the
\* instance was last left healthy with counter 0 by a probe (-1: it was not)
record_probe(g, ok) ==
    LET id == IdOrder[monitor[g].idx + 1]
        before == instances[id]
        after == health_update(before, ok)
        old == probe_log[id]
    IN probe_log' = [probe_log EXCEPT ![id] =
          [probed |-> TRUE, ok |-> ok, status |-> before.status,
           method |-> probe_method(before.status),
           failures |-> before.health_check_failures,
           streak |-> IF ok THEN 0 ELSE old.streak + 1,
           clean |-> IF ok
                       THEN IF after.status = "healthy"
                               /\ after.health_check_failures = 0
                              THEN 0 ELSE -1
                       ELSE IF old.clean >= 0 THEN old.clean + 1 ELSE -1]]

(***************************************************************************)
(* _worker_loop(instance_id).                                              *)
(***************************************************************************)
\* mutant: the claim does not mark the task running
claim_keeps_pending(task, id, t) ==
    [task EXCEPT !.assigned_instance = id, !.start_time = t]

\* lines 614-616: the claimed task
claim(task, id, t) ==
    [task EXCEPT !.assigned_instance = id, !.status = "running", !.start_time = t]

\* mutant: the status is decided by the result dict being truthy (if result:)
\* instead of by result.get("success")
run_task_truthy(task, ok, outs, stores, t) ==
    IF ok
      THEN LET result == execute_task(task.actions, outs, stores)
           IN [task EXCEPT !.end_time = t, !.result = result,
                           !.status = IF result.keys # {} THEN "completed" ELSE "failed"]
      ELSE [task EXCEPT !.status = "failed", !.result = InitErrorResult]

\* mutant: a failed handshake gives the task back its unassigned state
run_task_unassigns(task, ok, outs, stores, t) ==
    IF ok
      THEN LET result == execute_task(task.actions, outs, stores)
           IN [task EXCEPT !.end_time = t, !.result = result,
                           !.status = IF result.success THEN "completed" ELSE "failed"]
      ELSE [task EXCEPT !.status = "failed", !.result = InitErrorResult,
                        !.assigned_instance = NoInstance]

\* lines 622-642: the task after the handshake answered ok and, when it did, the
\* remote calls of its actions returned outs
run_task(task, ok, outs, stores, t) ==
    IF ok
      THEN LET result == execute_task(task.actions, outs, stores)
           IN [task EXCEPT !.end_time = t, !.result = result,
                           !.status = IF result.success THEN "completed" ELSE "failed"]
      ELSE [task EXCEPT !.status = "failed", !.result = InitErrorResult]

\* mutant: a failed task is also held against the health of the instance
count_task_blames_health(inst, status) ==
    IF status = "completed"
      THEN [inst EXCEPT !.completed_tasks = @ + 1]
      ELSE [inst EXCEPT !.failed_tasks = @ + 1, !.health_check_failures = @ + 1]

\* mutant: every finished task is counted as completed
count_task_all_completed(inst, status) ==
    [inst EXCEPT !.completed_tasks = @ + 1]

\* mutant: a failed task is not counted
count_task_drops_failure(inst, status) ==
    IF status = "completed"
      THEN [inst EXCEPT !.completed_tasks = @ + 1]
      ELSE inst

\* lines 631, 635, 641: the instance's counters after its task ended with status
count_task(inst, status) ==
    IF status = "completed"
      THEN [inst EXCEPT !.completed_tasks = @ + 1]
      ELSE [inst EXCEPT !.failed_tasks = @ + 1]

\* mutant: the status of the instance is not looked at
can_claim_any_status(inst, limit) ==
    inst.active_tasks < limit

\* lines 608-609: the instance is healthy and under the limit
can_claim(inst, limit) ==
    inst.status = "healthy" /\ inst.active_tasks < limit

\* mutant: the head of the queue is read but not removed
dequeue_peek(queue) == queue

\* line 613: the queue after get_nowait() has taken its head
dequeue(queue) == Tail(queue)

\* mutant: active_tasks is not decremented
release_leak(inst) == inst

\* line 652
release(inst) ==
    [inst EXCEPT !.active_tasks = IF @ - 1 > 0 THEN @ - 1 ELSE 0]

\* lines 603-609, 654-656: the loop ends when the flag is cleared; else the
\* instance must be healthy and under its limit, or the thread sleeps 2 s
worker_while(g, id) ==
    /\ worker[g][id].pc = "while"
    /\ IF ~monitoring
         THEN worker' = [worker EXCEPT ![g][id] = NoWorker]
       ELSE IF can_claim(instances[id], max_concurrent_per_instance)
         THEN worker' = [worker EXCEPT ![g][id].pc = "get"]
       ELSE UNCHANGED worker
    /\ UNCHANGED <<max_concurrent_per_instance, instances, task_queue,
                   completed_tasks, monitoring, tasks, monitor, starts, joining,
                   now, backend, probe_log, submit_log, client, wire>>

\* lines 613-617, 647-650: get_nowait() raises Empty, or the head of the queue is
\* claimed and active_tasks incremented
worker_get(g, id) ==
    /\ worker[g][id].pc = "get"
    /\ IF task_queue = << >>
         THEN /\ worker' = [worker EXCEPT ![g][id].pc = "finally"]
              /\ UNCHANGED <<task_queue, tasks, instances>>
         ELSE LET t == Head(task_queue)
              IN /\ task_queue' = dequeue(task_queue)
                 /\ tasks' = [tasks EXCEPT ![t] = claim(@, id, now)]
                 /\ instances' = [instances EXCEPT ![id].active_tasks = @ + 1]
                 /\ worker' = [worker EXCEPT ![g][id] = [pc |-> "run", task |-> t]]
    /\ UNCHANGED <<max_concurrent_per_instance, completed_tasks, monitoring,
                   monitor, starts, joining, now, backend, probe_log, submit_log, client, wire>>

\* lines 622-642: the handshake with the instance and, when it succeeds, the run
\* of the task's actions
worker_run(g, id) ==
    /\ worker[g][id].pc = "run"
    /\ LET t == worker[g][id].task
       IN \E ok \in Answers(id), outs \in [1..Len(tasks[t].actions) -> RemoteOut] :
             \E stores \in StoreOutcomes(tasks[t].actions, outs) :
                LET done == run_task(tasks[t], ok, outs, stores, now)
                IN /\ tasks' = [tasks EXCEPT ![t] = done]
                   /\ instances' = [instances EXCEPT ![id] = count_task(@, done.status)]
    /\ worker' = [worker EXCEPT ![g][id].pc = "log"]
    /\ UNCHANGED <<max_concurrent_per_instance, task_queue, completed_tasks,
                   monitoring, monitor, starts, joining, now, backend, probe_log, submit_log, client, wire>>

\* mutant: the finished task is not appended to the log
worker_log_drops(g, id) ==
    /\ worker[g][id].pc = "log"
    /\ worker' = [worker EXCEPT ![g][id].pc = "finally"]
    /\ UNCHANGED <<max_concurrent_per_instance, instances, task_queue, monitoring,
                   completed_tasks, tasks, monitor, starts, joining, now, backend,
                   probe_log, submit_log, client, wire>>

\* lines 644-645: the client is closed and the task appended to the log
worker_log(g, id) ==
    /\ worker[g][id].pc = "log"
    /\ completed_tasks' = Append(completed_tasks, worker[g][id].task)
    /\ worker' = [worker EXCEPT ![g][id].pc = "finally"]
    /\ UNCHANGED <<max_concurrent_per_instance, instances, task_queue, monitoring,
                   tasks, monitor, starts, joining, now, backend, probe_log, submit_log, client, wire>>

\* mutant: the finally clause decrements active_tasks of every instance
worker_finally_releases_all(g, id) ==
    /\ worker[g][id].pc = "finally"
    /\ instances' = [j \in DOMAIN instances |-> release(instances[j])]
    /\ worker' = [worker EXCEPT ![g][id] = [pc |-> "while", task |-> NoTask]]
    /\ UNCHANGED <<max_concurrent_per_instance, task_queue, completed_tasks,
                   monitoring, tasks, monitor, starts, joining, now, backend, probe_log, submit_log, client, wire>>

\* lines 651-652: the finally clause, after a task as after Empty
worker_finally(g, id) ==
    /\ worker[g][id].pc = "finally"
    /\ instances' = [instances EXCEPT ![id] = release(@)]
    /\ worker' = [worker EXCEPT ![g][id] = [pc |-> "while", task |-> NoTask]]
    /\ UNCHANGED <<max_concurrent_per_instance, task_queue, completed_tasks,
                   monitoring, tasks, monitor, starts, joining, now, backend, probe_log, submit_log, client, wire>>

(***************************************************************************)
(* The manager: every interleaving of its threads and its callers.         *)
(***************************************************************************)
\* the action sequences of the tasks submitted to the manager
DispatchShapes == {<<Navigate>>}

\* the steps of the monitor threads the manager has started
MonitorThreads ==
    \/ \E g \in Generations : monitor_while(g)
    \/ \E g \in Generations : monitor_for(g)
    \/ \E g \in Generations, ok \in BOOLEAN :
          monitor_probe(g, ok) /\ UNCHANGED probe_log

\* the steps of the worker threads the manager has started
WorkerThreads ==
    \/ \E g \in Generations, id \in InstanceIds : worker_while(g, id)
    \/ \E g \in Generations, id \in InstanceIds : worker_get(g, id)
    \/ \E g \in Generations, id \in InstanceIds : worker_run(g, id)
    \/ \E g \in Generations, id \in InstanceIds : worker_log(g, id)
    \/ \E g \in Generations, id \in InstanceIds : worker_finally(g, id)

Next ==
    \/ add_instance(Len(IdOrder))
    \/ start_monitoring(MaxStarts)
    \/ stop_monitoring
    \/ stop_monitoring_return
    \/ submit_task(DispatchShapes, MaxTasks) /\ UNCHANGED submit_log
    \/ MonitorThreads
    \/ WorkerThreads

Spec == Init /\ [][Next]_vars

(***************************************************************************)
(* The health monitor alone, over a long run of the clock: the dispatchers *)
(* never write status, last_check or health_check_failures.                *)
(***************************************************************************)
NextHealth ==
    \/ add_instance(1)
    \/ start_monitoring(1)
    \/ Tick(MonitorPeriod, MaxTicks)
    \/ \E g \in Generations : monitor_while(g)
    \/ \E g \in Generations : monitor_for(g)
    \/ \E g \in Generations, ok \in BOOLEAN :
          monitor_probe(g, ok) /\ record_probe(g, ok)

SpecHealth == Init /\ [][NextHealth]_vars

(***************************************************************************)
(* One instance, two generations of threads and one task more than the     *)
(* manager specification: a stop_monitoring whose join times out, then a   *)
(* second start_monitoring.                                                *)
(***************************************************************************)
NextRace ==
    \/ add_instance(1)
    \/ start_monitoring(MaxStarts)
    \/ stop_monitoring
    \/ stop_monitoring_return
    \/ submit_task({<<Wait>>}, MaxTasks + 1) /\ UNCHANGED submit_log
    \/ MonitorThreads
    \/ WorkerThreads

SpecRace == Init /\ [][NextRace]_vars

(***************************************************************************)
(* The dispatch of one task, over every action sequence up to MaxActions.  *)
(***************************************************************************)
ActionPool == {Navigate, NavigateNoUrl, Wait, HealthCheck, ListTools, Hover,
               Screenshot, Snapshot}

RECURSIVE Shapes(_)
\* the action sequences of length at most n
Shapes(n) ==
    IF n = 0 THEN {<< >>}
    ELSE LET shorter == Shapes(n - 1)
         IN shorter \cup {Append(s, a) : s \in shorter, a \in ActionPool}

NextExec ==
    \/ add_instance(1)
    \/ start_monitoring(1)
    \/ submit_task(Shapes(MaxActions), 1) /\ UNCHANGED submit_log
    \/ MonitorThreads
    \/ WorkerThreads

SpecExec == Init /\ [][NextExec]_vars

(***************************************************************************)
(* The manager with servers that always answer or never do, under the      *)
(* scheduling of the threads: a started thread that can take a step        *)
(* eventually takes one.                                                   *)
(***************************************************************************)
InitSteady ==
    /\ max_concurrent_per_instance = 1
    /\ instances = << >>
    /\ task_queue = << >>
    /\ completed_tasks = << >>
    /\ monitoring = FALSE
    /\ tasks = << >>
    /\ monitor = [g \in Generations |-> NoMonitor]
    /\ worker = [g \in Generations |-> [i \in InstanceIds |-> NoWorker]]
    /\ starts = 0
    /\ joining = FALSE
    /\ now = Epoch
    /\ backend \in [InstanceIds -> {"up", "down"}]
    /\ probe_log = [i \in InstanceIds |-> NoProbe]
    /\ submit_log = << >>
    /\ client = NewClient
    /\ wire = NoWire

NextLive ==
    \/ add_instance(Len(IdOrder))
    \/ start_monitoring(1)
    \/ stop_monitoring
    \/ stop_monitoring_return
    \/ submit_task(DispatchShapes, MaxTasks) /\ record_submit
    \/ MonitorThreads
    \/ WorkerThreads

MonitorStep(g) ==
    \/ monitor_while(g)
    \/ monitor_for(g)
    \/ \E ok \in BOOLEAN : monitor_probe(g, ok) /\ UNCHANGED probe_log

WorkerStep(g, id) ==
    \/ worker_while(g, id)
    \/ worker_get(g, id)
    \/ worker_run(g, id)
    \/ worker_log(g, id)
    \/ worker_finally(g, id)

LiveSpec ==
    /\ InitSteady
    /\ [][NextLive]_vars
    /\ \A g \in Generations : WF_vars(MonitorStep(g))
    /\ \A g \in Generations, id \in InstanceIds : WF_vars(WorkerStep(g, id))

(***************************************************************************)
(* One SSEClient object, its methods called in any order.                  *)
(***************************************************************************)
managerVars == <<max_concurrent_per_instance, instances, task_queue,
                 completed_tasks, monitoring, tasks, monitor, worker, starts,
                 joining, now, backend, probe_log, submit_log, wire>>

client_initialize(resp) == client' = initialize(client, resp)
client_health_check(tier) == client' = health_check(client, tier)
client_list_tools(out) == client' = list_tools(client, out)
client_call_tool(out) == client' = call_tool(client, out)
client_close(inner) == client' = close(client, inner)

NextClient ==
    /\ Len(client.calls) < MaxCalls
    /\ UNCHANGED managerVars
    /\ \/ \E resp \in InitializeAnswers : client_initialize(resp)
       \/ \E tier \in ProbeAnswers : client_health_check(tier)
       \/ \E out \in RemoteOut : client_list_tools(out)
       \/ \E out \in RemoteOut : client_call_tool(out)
       \/ \E inner \in BOOLEAN : client_close(inner)

SpecClient == Init /\ [][NextClient]_vars

(***************************************************************************)
(* A manager with a concurrency limit above one: one instance whose server *)
(* always answers, one start_monitoring, threads scheduled fairly.         *)
(***************************************************************************)
InitLimit ==
    /\ max_concurrent_per_instance = ConcurrencyLimit
    /\ instances = << >>
    /\ task_queue = << >>
    /\ completed_tasks = << >>
    /\ monitoring = FALSE
    /\ tasks = << >>
    /\ monitor = [g \in Generations |-> NoMonitor]
    /\ worker = [g \in Generations |-> [i \in InstanceIds |-> NoWorker]]
    /\ starts = 0
    /\ joining = FALSE
    /\ now = Epoch
    /\ backend = [i \in InstanceIds |-> "up"]
    /\ probe_log = [i \in InstanceIds |-> NoProbe]
    /\ submit_log = << >>
    /\ client = NewClient
    /\ wire = NoWire

NextLimit ==
    \/ add_instance(1)
    \/ start_monitoring(1)
    \/ submit_task({<<Wait>>, <<Navigate>>}, MaxTasks + 1) /\ UNCHANGED submit_log
    \/ MonitorThreads
    \/ WorkerThreads

LimitSpec ==
    /\ InitLimit
    /\ [][NextLimit]_vars
    /\ \A g \in Generations : WF_vars(MonitorStep(g))
    /\ \A g \in Generations, id \in InstanceIds : WF_vars(WorkerStep(g, id))

(***************************************************************************)
(* One instance, its monitor and its dispatcher while the clock advances   *)
(* by the check interval of a healthy instance: the monitor can condemn    *)
(* the instance between the dispatcher's check and its claim.              *)
(***************************************************************************)
NextStale ==
    \/ add_instance(1)
    \/ start_monitoring(1)
    \/ Tick(HealthyInterval, HealthyThreshold)
    \/ submit_task({<<Wait>>}, 1) /\ UNCHANGED submit_log
    \/ MonitorThreads
    \/ WorkerThreads

SpecStale == Init /\ [][NextStale]_vars

(***************************************************************************)
(* The dispatch of one task on each of its exit paths, with monitoring     *)
(* stopped at any moment, threads scheduled fairly.                        *)
(***************************************************************************)
\* the empty task, the tasks of one action, and a task whose first action raises
RetireShapes == Shapes(1) \cup {<<NavigateNoUrl, Wait>>}

NextExecLive ==
    \/ add_instance(1)
    \/ start_monitoring(1)
    \/ stop_monitoring
    \/ stop_monitoring_return
    \/ submit_task(RetireShapes, 1) /\ UNCHANGED submit_log
    \/ MonitorThreads
    \/ WorkerThreads

LiveExec ==
    /\ Init
    /\ [][NextExecLive]_vars
    /\ \A g \in Generations : WF_vars(MonitorStep(g))
    /\ \A g \in Generations, id \in InstanceIds : WF_vars(WorkerStep(g, id))

(***************************************************************************)
(* The claims.                                                             *)
(***************************************************************************)
Finished(t) == tasks[t].status \in {"completed", "failed"}

\* C1: in every reachable state every registered instance has
\* 0 <= active_tasks <= max_concurrent_per_instance.
C1_ActiveTasksWithinLimit ==
    \A id \in Registered :
        /\ 0 <= instances[id].active_tasks
        /\ instances[id].active_tasks <= max_concurrent_per_instance

\* C3: health_check_failures is a consecutive-failure counter: after every probe
\* it equals the number of failed probes since the instance's most recent
\* successful probe, so a healthy instance turns unhealthy only at a probe that
\* is at least the 5th failed probe in a row.
C3_CounterIsConsecutive ==
    \A id \in Registered :
        probe_log[id].probed =>
            /\ instances[id].health_check_failures = probe_log[id].streak
            /\ (probe_log[id].status = "healthy" /\ instances[id].status = "unhealthy")
                  => probe_log[id].streak >= 5

\* C4: an instance left healthy with counter 0 is still healthy after each of its
\* next 4 consecutive failed probes and is unhealthy after the 5th.
C4_FiveFailuresCondemn ==
    \A id \in Registered :
        /\ probe_log[id].clean \in 1..4 => instances[id].status = "healthy"
        /\ probe_log[id].clean = 5 => instances[id].status = "unhealthy"

\* C4 witness: the 5th consecutive failed probe has condemned the instance.
C4_Witness ==
    \E id \in Registered :
        /\ probe_log[id].clean = 5
        /\ probe_log[id].status = "healthy"
        /\ instances[id].status = "unhealthy"

\* C5: a successful probe of an unhealthy instance leaves it healthy with failure
\* counter 0, whatever the counter was.
C5_SingleSuccessPromotes ==
    \A id \in Registered :
        (probe_log[id].probed /\ probe_log[id].ok /\ probe_log[id].status = "unhealthy")
            => /\ instances[id].status = "healthy"
               /\ instances[id].health_check_failures = 0

\* C5 witness: an unhealthy instance whose counter had passed the threshold of 3
\* has been promoted by one successful probe.
C5_Witness ==
    \E id \in Registered :
        /\ probe_log[id].probed /\ probe_log[id].ok
        /\ probe_log[id].status = "unhealthy"
        /\ probe_log[id].failures >= 4
        /\ instances[id].status = "healthy"

\* the results of task t list one outcome per action, in order
OutcomePerAction(t) ==
    /\ Len(tasks[t].result.results) = Len(tasks[t].actions)
    /\ \A k \in 1..Len(tasks[t].actions) :
          tasks[t].result.results[k].action = tasks[t].actions[k].type

\* C7: execute_task records one outcome per action, in order, for every action
\* of the task, whatever made an action fail.
C7_OneOutcomePerAction ==
    \A t \in TaskIds :
        (Finished(t) /\ "results" \in tasks[t].result.keys) => OutcomePerAction(t)

\* every action of task t has run and succeeded
AllSucceeded(t) ==
    /\ Len(tasks[t].result.results) = Len(tasks[t].actions)
    /\ \A k \in 1..Len(tasks[t].actions) : tasks[t].result.results[k].success

\* C8: after a successful dispatch handshake (the path that stamps end_time) the
\* task is completed if and only if every action succeeded, failed otherwise, and
\* the per-action result list is attached to task.result.
C8_CompletedIffAllSucceeded ==
    \A t \in TaskIds :
        (Finished(t) /\ tasks[t].end_time # NoTime) =>
            /\ tasks[t].status = "completed" <=> AllSucceeded(t)
            /\ "results" \in tasks[t].result.keys
            /\ Len(tasks[t].result.results) <= Len(tasks[t].actions)
            /\ \A k \in 1..Len(tasks[t].result.results) :
                  tasks[t].result.results[k].action = tasks[t].actions[k].type

\* C8 witness: a task of three actions failed with every outcome listed, the
\* first and the last successful.
C8_Witness ==
    \E t \in TaskIds :
        /\ tasks[t].status = "failed" /\ tasks[t].end_time # NoTime
        /\ Len(tasks[t].actions) = 3
        /\ Len(tasks[t].result.results) = 3
        /\ tasks[t].result.results[1].success
        /\ ~tasks[t].result.results[2].success
        /\ tasks[t].result.results[3].success

\* C9: a task's status only moves pending -> running -> completed or
\* pending -> running -> failed, and a new task starts pending.
C9_StatusTransitions ==
    [][/\ \A t \in DOMAIN tasks :
             \/ tasks'[t].status = tasks[t].status
             \/ <<tasks[t].status, tasks'[t].status>> \in
                    {<<"pending", "running">>, <<"running", "completed">>,
                     <<"running", "failed">>}
       /\ \A t \in (DOMAIN tasks') \ (DOMAIN tasks) : tasks'[t].status = "pending"
      ]_vars

\* C9 witness: one task has gone to completed and another to failed.
C9_Witness ==
    \E t1, t2 \in TaskIds :
        /\ tasks[t1].status = "completed"
        /\ tasks[t2].status = "failed"

\* the worker threads that hold task t
Holders(t) ==
    {p \in Generations \X InstanceIds : worker[p[1]][p[2]].task = t}
Occurrences(seq, t) == Cardinality({k \in 1..Len(seq) : seq[k] = t})

\* C10: a task is held by at most one dispatcher, is in the queue and in the
\* log at most once, is queued only while it is pending and unclaimed; once it
\* has left the queue it never re-enters it, and once its dispatcher has let go
\* of it no dispatcher takes it again.
C10_ClaimedOnce ==
    /\ [](\A t \in TaskIds :
             /\ Cardinality(Holders(t)) <= 1
             /\ Occurrences(completed_tasks, t) <= 1
             /\ Occurrences(task_queue, t) <= 1
             /\ Occurrences(task_queue, t) = 1 =>
                   /\ tasks[t].status = "pending"
                   /\ Holders(t) = {}
                   /\ Occurrences(completed_tasks, t) = 0)
    /\ [][\A t \in DOMAIN tasks :
             /\ Occurrences(task_queue, t) = 0 => Occurrences(task_queue', t) = 0
             /\ (Holders(t) = {} /\ tasks[t].status # "pending") =>
                   \A p \in Generations \X InstanceIds : worker'[p[1]][p[2]].task # t
         ]_vars

\* C10 witness: a failed task is in the log, its dispatcher has gone on to claim
\* the next task, and the queue is empty.
C10_Witness ==
    \E t1, t2 \in TaskIds :
        /\ tasks[t1].status = "failed"
        /\ Occurrences(completed_tasks, t1) = 1
        /\ Holders(t1) = {}
        /\ tasks[t2].status = "running"
        /\ tasks[t2].assigned_instance = tasks[t1].assigned_instance
        /\ task_queue = << >>

\* get_status() reports every submitted task as completed or failed and an
\* empty queue
Drained ==
    /\ queue_size = 0
    /\ status_completed_tasks + status_failed_tasks = Len(tasks)

\* an instance whose server always answers has a worker thread
UpWorker ==
    \E g \in Generations, id \in Registered :
        backend[id] = "up" /\ worker[g][id].pc # "none"

\* C2 as claimed: once a batch (here of MaxTasks tasks) has been submitted to a
\* monitoring manager, eventually completed_tasks + failed_tasks equals the
\* number submitted and queue_size is 0.
C2_EventuallyDrained ==
    (monitoring /\ Len(tasks) = MaxTasks) ~> Drained

\* C2 amended: the same, provided an instance whose handshakes and probes
\* always succeed has a worker thread, and unless monitoring is stopped.
C2_DrainedWhenAWorkerIsUp ==
    (monitoring /\ UpWorker /\ Len(tasks) = MaxTasks) ~> (Drained \/ ~monitoring)

\* C2 witness: the batch has been drained by a manager that is still monitoring.
C2_Witness ==
    /\ monitoring /\ UpWorker
    /\ Len(tasks) = MaxTasks
    /\ Drained
    /\ \E t \in TaskIds : tasks[t].status = "completed"

\* task t was submitted while f, whose server never answers, was unhealthy, and
\* both f and h, whose server always answers, have worker threads
SubmittedWhileCondemned(f, h, t) ==
    IF t \in DOMAIN submit_log
      THEN /\ backend[f] = "down" /\ backend[h] = "up"
           /\ \E g \in Generations :
                 worker[g][f].pc # "none" /\ worker[g][h].pc # "none"
           /\ f \in submit_log[t]
      ELSE FALSE
AssignedTo(t, h) ==
    IF t \in TaskIds THEN tasks[t].assigned_instance = h ELSE FALSE

\* C6: with one instance whose server never answers and one whose server always
\* does, a task submitted while the first is unhealthy is never assigned to the
\* first, and while monitoring goes on it is eventually assigned to the second.
C6_ClaimedByHealthyWorker ==
    /\ [](\A f \in Registered, h \in Registered, t \in TaskIds :
             ( /\ backend[f] = "down" /\ backend[h] = "up"
               /\ f \in submit_log[t]
               /\ tasks[t].assigned_instance # NoInstance )
                 => tasks[t].assigned_instance = h)
    /\ \A f \in InstanceIds, h \in InstanceIds, t \in 1..MaxTasks :
          (monitoring /\ SubmittedWhileCondemned(f, h, t))
              ~> (AssignedTo(t, h) \/ ~monitoring)

\* C6 witness: such a task has been claimed by the healthy instance and finished.
C6_Witness ==
    \E f \in Registered, h \in Registered, t \in TaskIds :
        /\ backend[f] = "down" /\ backend[h] = "up"
        /\ instances[f].status = "unhealthy"
        /\ f \in submit_log[t]
        /\ tasks[t].assigned_instance = h
        /\ Finished(t)

\* C11: the step by which a dispatcher lets go of a task it had claimed (the
\* finally clause, on every exit path) decrements active_tasks of its instance
\* by exactly one, the claim having incremented it by exactly one; and an
\* instance whose dispatchers are all idle has no active task.
C11_ReleasedExactlyOnce ==
    /\ [][\A g \in Generations, id \in InstanceIds :
             /\ (worker[g][id].task = NoTask /\ worker'[g][id].task # NoTask) =>
                   instances'[id].active_tasks = instances[id].active_tasks + 1
             /\ (worker[g][id].task # NoTask /\ worker'[g][id].task = NoTask) =>
                   instances'[id].active_tasks = instances[id].active_tasks - 1
         ]_vars
    /\ [](\A id \in Registered :
             (\A g \in Generations : worker[g][id].pc \in {"none", "while"}) =>
                 instances[id].active_tasks = 0)

\* C12: assigned_instance of a task is set exactly once, by the step in which a
\* dispatcher claims the task, to the id of that dispatcher's instance; it is
\* None while the task is pending and is never cleared or changed afterwards.
C12_AssignedOnce ==
    /\ [](\A t \in TaskIds :
             tasks[t].assigned_instance = NoInstance <=> tasks[t].status = "pending")
    /\ [][/\ \A t \in DOMAIN tasks :
                tasks'[t].assigned_instance # tasks[t].assigned_instance =>
                    /\ tasks[t].assigned_instance = NoInstance
                    /\ tasks'[t].assigned_instance \in InstanceIds
                    /\ \E g \in Generations :
                          /\ worker[g][tasks'[t].assigned_instance].pc = "get"
                          /\ worker'[g][tasks'[t].assigned_instance].task = t
          /\ \A t \in (DOMAIN tasks') \ (DOMAIN tasks) :
                tasks'[t].assigned_instance = NoInstance
         ]_vars

\* C12 witness: a task has failed at the dispatch handshake and is in the log,
\* still carrying the id of the instance that claimed it.
C12_Witness ==
    \E t \in TaskIds :
        /\ tasks[t].status = "failed"
        /\ tasks[t].end_time = NoTime
        /\ tasks[t].assigned_instance \in InstanceIds
        /\ Occurrences(completed_tasks, t) = 1

\* C13: tasks leave the queue in submission order (task ids are given in
\* submission order): a task is claimed only after every task submitted before
\* it has been claimed, and the queue holds the unclaimed tasks in submission
\* order. Nothing is said of the order of completion.
C13_ClaimedInSubmissionOrder ==
    /\ \A a \in TaskIds, b \in TaskIds :
          (a < b /\ tasks[b].status # "pending") => tasks[a].status # "pending"
    /\ \A j \in 1..Len(task_queue), k \in 1..Len(task_queue) :
          j < k => task_queue[j] < task_queue[k]

\* C13 witness: two dispatchers have claimed tasks in submission order, and the
\* task submitted later has finished while the earlier one is still running.
C13_Witness ==
    \E a \in TaskIds, b \in TaskIds :
        /\ a < b
        /\ tasks[a].status = "running"
        /\ Finished(b)
        /\ tasks[a].assigned_instance # tasks[b].assigned_instance

\* C14: every request a client issues after its handshake has captured a session
\* token carries that token in its headers.
C14_TokenOnEveryRequest ==
    \A k \in 1..Len(client.sent) :
        client.sent[k].captured # NoToken =>
            client.sent[k].carried = client.sent[k].captured

\* C17: close() never raises, changes nothing of the client but its connection
\* pool, and on a client whose connections a close has released a further
\* close changes nothing at all: however often it is called, the client stays
\* in the state the first close left it in.
C17_CloseIsSafeAndIdempotent ==
    \A inner1 \in BOOLEAN, inner2 \in BOOLEAN :
        LET first == close(client, inner1)
            second == close(first, inner2)
            Fields(c) == <<c.session_id, c.header, c.captured, c.sent>>
        IN /\ ~first.raised /\ ~second.raised
           /\ Fields(first) = Fields(client) /\ Fields(second) = Fields(client)
           /\ ~first.pooled =>
                 [second EXCEPT !.calls = first.calls] = first
           /\ (client.calls # << >> /\ client.calls[Len(client.calls)] = "close") =>
                 ~client.raised

\* C17 witness: a client that has made a handshake has been closed twice, and
\* holds no connection.
C17_Witness ==
    /\ Len(client.calls) = 3
    /\ client.calls[1] = "initialize"
    /\ client.calls[2] = "close"
    /\ client.calls[3] = "close"
    /\ client.captured = ServerToken
    /\ ~client.pooled

\* C15: with a concurrency limit above one, once a healthy instance of a
\* monitoring manager has as many tasks queued as the limit, a state in which
\* its active_tasks equals the limit is reached.
C15_LimitIsReached ==
    (\E id \in Registered :
        /\ monitoring
        /\ instances[id].status = "healthy"
        /\ Len(task_queue) >= max_concurrent_per_instance)
      ~> (\E id \in Registered :
            instances[id].active_tasks = max_concurrent_per_instance)

\* the success flags of the entries of a result list
Flags(results) == [k \in 1..Len(results) |-> results[k].success]

\* C16: the outcomes of the artifact-storage calls change neither the success
\* flags of the actions nor the status of the task: for a task about to be run,
\* whatever its remote calls return, every storage outcome gives the flags and
\* the status of the run in which no storage call is made (so any two runs that
\* differ only in storage outcomes agree); and no task fails with a screenshot
\* or snapshot flagged failed whose remote call gave a value.
C16_StorageNeverDecides ==
    /\ \A g \in Generations, id \in InstanceIds :
          worker[g][id].pc = "run" =>
             LET task == tasks[worker[g][id].task]
                 idx == 1..Len(task.actions)
             IN \A outs \in [idx -> RemoteOut] :
                   \A stores \in StoreOutcomes(task.actions, outs) :
                      LET with == run_task(task, TRUE, outs, stores, now)
                          without == run_task(task, TRUE, outs,
                                              [k \in idx |-> "skipped"], now)
                      IN /\ Flags(with.result.results) = Flags(without.result.results)
                         /\ with.status = without.status
    /\ \A t \in TaskIds :
          \A k \in 1..Len(tasks[t].result.results) :
             LET r == tasks[t].result.results[k]
             IN (r.action \in StoringKinds /\ r.data # "None") => r.success

\* C16 witness: a completed task whose screenshot was saved to the store and
\* whose snapshot was not, both actions flagged successful.
C16_Witness ==
    \E t \in TaskIds :
        /\ tasks[t].status = "completed"
        /\ Len(tasks[t].result.results) >= 2
        /\ tasks[t].result.results[1] =
              [action |-> "screenshot", success |-> TRUE, data |-> "result with minio url"]
        /\ tasks[t].result.results[2] =
              [action |-> "snapshot", success |-> TRUE, data |-> "result"]

\* C18: in the step in which a dispatcher takes a task from the queue and
\* assigns it to its instance, the instance is healthy and its active_tasks is
\* below the limit.
C18_EligibleAtClaim ==
    [][\A g \in Generations, id \in InstanceIds :
          (worker[g][id].task = NoTask /\ worker'[g][id].task # NoTask) =>
              /\ instances[id].status = "healthy"
              /\ instances[id].active_tasks < max_concurrent_per_instance
      ]_vars

\* task t is retired: completed or failed, and in the completed-task log
Retired(t) ==
    IF t \in TaskIds
      THEN Finished(t) /\ Occurrences(completed_tasks, t) = 1
      ELSE FALSE
Running(t) ==
    IF t \in TaskIds THEN tasks[t].status = "running" ELSE FALSE

\* C19: every task a dispatcher has claimed (status running) eventually is
\* completed or failed and in the completed-task log, whether the handshake
\* fails, every action runs, or an action raises; also when monitoring is
\* stopped in the meantime.
C19_ClaimedIsRetired ==
    \A t \in 1..MaxTasks : Running(t) ~> Retired(t)

\* C19 witness: a task whose first action raised has been retired as failed
\* after monitoring was stopped.
C19_Witness ==
    \E t \in TaskIds :
        /\ Retired(t)
        /\ tasks[t].status = "failed"
        /\ tasks[t].result.error = "exception"
        /\ ~monitoring

\* C20: in every state a task is in the completed-task log if and only if its
\* status is completed or failed.
C20_LoggedIffFinished ==
    \A t \in TaskIds : Occurrences(completed_tasks, t) >= 1 <=> Finished(t)

\* C21: an instance of unknown status is probed with the handshake
\* (initialize), not with health_check: a success leaves it healthy with failure
\* counter 0, a failure leaves it unhealthy with the counter incremented by one.
C21_FirstProbeIsHandshake ==
    \A id \in Registered :
        /\ (probe_log[id].probed /\ probe_log[id].status = "unknown") =>
              /\ probe_log[id].method = "initialize"
              /\ probe_log[id].ok =>
                    /\ instances[id].status = "healthy"
                    /\ instances[id].health_check_failures = 0
              /\ ~probe_log[id].ok =>
                    /\ instances[id].status = "unhealthy"
                    /\ instances[id].health_check_failures = probe_log[id].failures + 1
        /\ (probe_log[id].probed /\ probe_log[id].status # "unknown") =>
              probe_log[id].method = "health_check"
        /\ instances[id].status = "unknown" <=> ~probe_log[id].probed

\* C21 witness: the first probe of an instance, a handshake, has failed.
C21_Witness ==
    \E id \in Registered :
        /\ probe_log[id].probed /\ probe_log[id].status = "unknown"
        /\ ~probe_log[id].ok
        /\ instances[id].status = "unhealthy"
        /\ instances[id].health_check_failures = 1

\* a step in which the dispatcher g of instance id leaves line 623 with a failed
\* handshake: execute_task is not called and end_time stays unset
HandshakeFailed(g, id) ==
    /\ worker[g][id].pc = "run" /\ worker'[g][id].pc # "run"
    /\ tasks'[worker[g][id].task].end_time = NoTime

\* C22: when the handshake of a dispatch fails, the claimed task is failed at
\* once with the diagnostic result, none of its actions is run, the handshake is
\* not tried again (the thread goes on to close and log the task, and the task
\* never changes afterwards), and the instance's failed_tasks grows by exactly
\* one.
C22_FailedHandshakeFailsTask ==
    [][ /\ \A g \in Generations : \A id \in Registered :
              HandshakeFailed(g, id) =>
                 LET t == worker[g][id].task
                 IN /\ tasks[t].status = "running"
                    /\ tasks'[t] = [tasks[t] EXCEPT !.status = "failed",
                                                    !.result = InitErrorResult]
                    /\ tasks'[t].result.results = << >>
                    /\ worker'[g][id] = [pc |-> "log", task |-> t]
                    /\ instances'[id] =
                         [instances[id] EXCEPT !.failed_tasks = @ + 1]
        /\ \A t \in TaskIds :
              tasks[t].result = InitErrorResult => tasks'[t] = tasks[t]
      ]_vars

\* C22 witness: a task with actions has been failed by a failed handshake and
\* counted once.
C22_Witness ==
    \E id \in Registered : \E g \in Generations :
        /\ worker[g][id].pc = "log"
        /\ LET t == worker[g][id].task
           IN /\ tasks[t].actions # << >>
              /\ tasks[t].status = "failed"
              /\ tasks[t].result = InitErrorResult
              /\ tasks[t].end_time = NoTime
        /\ instances[id].failed_tasks = 1
        /\ instances[id].completed_tasks = 0

\* a step in which monitor thread g completes the probe of an instance
\* (lines 566-594)
ProbeStep(g) ==
    monitor[g].pc = "probe" /\ monitor'[g].pc # "probe"

\* C23: an instance is probed only when the time elapsed since its last_check is
\* at least the interval of its current status (unknown 10 s, unhealthy 15 s,
\* healthy 30 s), and every probe sets last_check to the time the monitor read
\* for it, whether or not the status changes.
C23_ProbedWhenDue ==
    [][ \A g \in Generations :
           ProbeStep(g) =>
              LET id == IdOrder[monitor[g].idx + 1]
              IN /\ now - instances[id].last_check
                       >= check_interval(instances[id].status)
                 /\ instances'[id].last_check = monitor[g].current_time
      ]_vars

(***************************************************************************)
(* The specification of the restarts with the scheduling of the threads:   *)
(* every started thread that can take a step eventually takes one (remote  *)
(* calls return).                                                          *)
(***************************************************************************)
LiveRace ==
    /\ Init
    /\ [][NextRace]_vars
    /\ \A g \in Generations : WF_vars(MonitorStep(g))
    /\ \A g \in Generations, id \in InstanceIds : WF_vars(WorkerStep(g, id))

\* a loop of the g-th start_monitoring is running while the flag is cleared
StoppedWhileLive(g) ==
    /\ ~monitoring
    /\ \/ monitor[g].pc # "none"
       \/ \E id \in InstanceIds : worker[g][id].pc # "none"

\* the monitor loop and every dispatcher loop of the g-th start have returned
Exited(g) ==
    /\ monitor[g].pc = "none"
    /\ \A id \in InstanceIds : worker[g][id].pc = "none"

\* C24: once stop_monitoring has cleared the flag, the monitor loop and every
\* dispatcher loop running at that moment eventually exit, whatever manager
\* operations follow, a new start_monitoring included.
C24_StoppedLoopsExit ==
    \A g \in Generations : StoppedWhileLive(g) ~> Exited(g)

\* the monitor loops, and the dispatcher loops of instance id, that are running
LiveMonitors == {g \in Generations : monitor[g].pc # "none"}
LiveWorkers(id) == {g \in Generations : worker[g][id].pc # "none"}

\* C25: while monitoring is active there is exactly one monitor loop and exactly
\* one dispatcher loop for each registered instance, after any sequence of
\* add_instance, start_monitoring and stop_monitoring.
C25_OneLoopEach ==
    monitoring =>
       /\ Cardinality(LiveMonitors) = 1
       /\ \A id \in Registered : Cardinality(LiveWorkers(id)) = 1

\* C26: no failure inside an iteration (a failed or raising probe, the
\* RuntimeError of the instance dict changing size, an empty queue, a failed
\* handshake, an action that raises) ends the monitor loop or a dispatcher loop:
\* a loop returns only by reading the cleared flag.
C26_LoopsEndOnlyByFlag ==
    [][ \A g \in Generations :
           /\ (monitor[g].pc # "none" /\ monitor'[g].pc = "none") => ~monitoring
           /\ \A id \in InstanceIds :
                 (worker[g][id].pc # "none" /\ worker'[g][id].pc = "none")
                     => ~monitoring
      ]_vars

\* C26 witness: a task whose action raised has been failed and logged, and the
\* dispatcher that ran it has passed its while test again; the monitor is
\* running too.
C26_Witness ==
    /\ monitoring
    /\ \E g \in Generations : monitor[g].pc # "none"
    /\ \E t \in TaskIds : \E g \in Generations : \E id \in Registered :
          /\ tasks[t].assigned_instance = id
          /\ tasks[t].result.error = "exception"
          /\ Occurrences(completed_tasks, t) = 1
          /\ worker[g][id].pc = "get"

\* the fields of an instance written by the health monitor
HealthFields(inst) ==
    <<inst.status, inst.last_check, inst.health_check_failures>>

\* the fields of an instance written by its dispatcher
TaskCounters(inst) ==
    <<inst.active_tasks, inst.completed_tasks, inst.failed_tasks>>

\* a step of a dispatcher thread of instance id
DispatcherStep(id) ==
    \E g \in Generations :
        worker[g][id].pc # "none" /\ worker'[g][id] # worker[g][id]

C28_OnlyOwnDispatcherWritesCounters ==
    [][ /\ \A g \in Generations :
              monitor'[g] # monitor[g] /\ monitor[g].pc # "none" =>
                 \A j \in Registered :
                     TaskCounters(instances'[j]) = TaskCounters(instances[j])
        /\ \A id \in Registered :
              TaskCounters(instances'[id]) # TaskCounters(instances[id]) =>
                 /\ DispatcherStep(id)
                 /\ \A j \in Registered \ {id} :
                       TaskCounters(instances'[j]) = TaskCounters(instances[j])
      ]_vars

\* C28 witness: two instances have been probed by the monitor and each has
\* counted a task of its own.
C28_Witness ==
    /\ Cardinality(Registered) = 2
    /\ \A id \in Registered :
          /\ instances[id].status # "unknown"
          /\ instances[id].completed_tasks + instances[id].failed_tasks = 1

(***************************************************************************)
(* The decoding of responses: parse_sse_response applied to any body of at *)
(* most MaxLines lines, and the return statements of call_tool applied to  *)
(* any decoded message.                                                    *)
(***************************************************************************)
InitWire ==
    /\ max_concurrent_per_instance = 1
    /\ instances = << >>
    /\ task_queue = << >>
    /\ completed_tasks = << >>
    /\ monitoring = FALSE
    /\ tasks = << >>
    /\ monitor = [g \in Generations |-> NoMonitor]
    /\ worker = [g \in Generations |-> [i \in InstanceIds |-> NoWorker]]
    /\ starts = 0
    /\ joining = FALSE
    /\ now = Epoch
    /\ backend = [i \in InstanceIds |-> "flaky"]
    /\ probe_log = [i \in InstanceIds |-> NoProbe]
    /\ submit_log = << >>
    /\ client = NewClient
    /\ \E lines \in SeqUpTo(Lines, MaxLines), result \in Messages(MaxItems) :
          wire = [NoWire EXCEPT !.response = lines, !.message = result]

\* result = self.parse_sse_response(response.text)
wire_parse ==
    /\ wire.parsed = "unset"
    /\ wire' = [wire EXCEPT !.parsed = parse_sse_response(wire.response)]
    /\ UNCHANGED <<max_concurrent_per_instance, instances, task_queue,
                   completed_tasks, monitoring, tasks, monitor, worker, starts,
                   joining, now, backend, probe_log, submit_log, client>>

\* call_tool from the decoded message on
wire_call_tool ==
    /\ wire.returned = Unset
    /\ wire' = [wire EXCEPT !.returned = call_tool_return(wire.message)]
    /\ UNCHANGED <<max_concurrent_per_instance, instances, task_queue,
                   completed_tasks, monitoring, tasks, monitor, worker, starts,
                   joining, now, backend, probe_log, submit_log, client>>

NextWire ==
    \/ wire_parse
    \/ wire_call_tool

SpecWire == InitWire /\ [][NextWire]_vars

RECURSIVE FirstParseable(_)
\* the object of the first line of the body that starts with "data: " and
\* parses, None when there is no such line
FirstParseable(lines) ==
    IF lines = << >> THEN "None"
    ELSE IF Head(lines).prefix = "data: " /\ Parses(Head(lines))
      THEN Head(lines).body
    ELSE FirstParseable(Tail(lines))

\* C29: parse_sse_response returns the first parseable JSON object among the
\* data lines of the response: a data line that does not parse is passed over,
\* and None is returned only when no data line parses.
C29_FirstParseableObject ==
    wire.parsed # "unset" => wire.parsed = FirstParseable(wire.response)

\* the response in wire is well formed and free of errors: it carries a result
\* whose isError flag is not set
ErrorFree == wire.message.kind = "result" /\ ~wire.message.result.isError

\* C30 as stated: for a well-formed, error-free response call_tool returns the
\* structured payload if the response has one, else the joined text fragments of
\* the content array if it has any, else the result envelope.
C30_PayloadPriority ==
    (wire.returned # Unset /\ ErrorFree) =>
        LET tool_result == wire.message.result
            texts == TextContent(tool_result.content)
        IN IF tool_result.structuredContent # "None"
             THEN wire.returned = ReturnStructured(tool_result.structuredContent)
           ELSE IF texts # << >>
             THEN wire.returned = ReturnText(texts)
           ELSE wire.returned = ReturnEnvelope(tool_result)

\* C30 amended: call_tool returns the structured payload if the response has a
\* non-empty one; else, if the content array has items of type text, the dict
\* {"text": their texts joined by newlines}; else the result envelope. An empty
\* structuredContent object counts as none.
C30_TruthyPayloadPriority ==
    (wire.returned # Unset /\ ErrorFree) =>
        LET tool_result == wire.message.result
            texts == TextContent(tool_result.content)
        IN IF Truthy(tool_result.structuredContent)
             THEN wire.returned = ReturnStructured(tool_result.structuredContent)
           ELSE IF texts # << >>
             THEN wire.returned = ReturnText(texts)
           ELSE wire.returned = ReturnEnvelope(tool_result)

\* C30 witness: a response with both a structured payload and two text fragments
\* has been answered with the structured payload.
C30_Witness ==
    /\ ErrorFree
    /\ Truthy(wire.message.result.structuredContent)
    /\ Len(TextContent(wire.message.result.content)) = 2
    /\ wire.returned.kind = "structuredContent"

(***************************************************************************)
(* One call of call_tool, for every way the POST can end, every body of at *)
(* most MaxLines lines and every decoded message.                          *)
(***************************************************************************)
InitInvoke ==
    /\ max_concurrent_per_instance = 1
    /\ instances = << >>
    /\ task_queue = << >>
    /\ completed_tasks = << >>
    /\ monitoring = FALSE
    /\ tasks = << >>
    /\ monitor = [g \in Generations |-> NoMonitor]
    /\ worker = [g \in Generations |-> [i \in InstanceIds |-> NoWorker]]
    /\ starts = 0
    /\ joining = FALSE
    /\ now = Epoch
    /\ backend = [i \in InstanceIds |-> "flaky"]
    /\ probe_log = [i \in InstanceIds |-> NoProbe]
    /\ submit_log = << >>
    /\ client = NewClient
    /\ \E transport \in Transports, lines \in SeqUpTo(Lines, MaxLines),
          result \in Messages(MaxItems) :
          wire = [NoWire EXCEPT !.transport = transport, !.response = lines,
                                !.message = result]

\* client.call_tool(tool_name, arguments)
wire_invoke ==
    /\ wire.returned = Unset
    /\ wire' = [wire EXCEPT !.returned =
                  call_tool_value(wire.transport, wire.response, wire.message)]
    /\ UNCHANGED <<max_concurrent_per_instance, instances, task_queue,
                   completed_tasks, monitoring, tasks, monitor, worker, starts,
                   joining, now, backend, probe_log, submit_log, client>>

SpecInvoke == InitInvoke /\ [][wire_invoke]_vars

\* the four causes of failure of a call: the transport, a frame that does not
\* parse, an error field in the envelope, the isError flag of the result
TransportFailure == wire.transport # "200"
UnparseableFrame ==
    wire.transport = "200" /\ FirstParseable(wire.response) = "None"
ProtocolError == wire.message.kind = "error"
ExecutionError ==
    IF wire.message.kind = "result" THEN wire.message.result.isError ELSE FALSE

\* C31: call_tool returns the same absent result (None), and does not raise,
\* for each of the four causes of failure: a transport failure, an error field
\* in the envelope, a set isError flag, an unparseable response frame.
C31_FailuresCollapseToNone ==
    (wire.returned # Unset
       /\ (TransportFailure \/ UnparseableFrame \/ ProtocolError \/ ExecutionError))
        => wire.returned = ReturnNone

\* C31 witness: a response arrived with status 200 and a frame that parses, its
\* result has the isError flag set, and the call has returned None.
C31_Witness ==
    /\ wire.transport = "200"
    /\ parse_sse_response(wire.response) # "None"
    /\ ExecutionError
    /\ wire.returned = ReturnNone

(***************************************************************************)
(* One probe of a client, fresh or after a handshake, against a server     *)
(* that answers the three tiers in every way.                              *)
(***************************************************************************)
InitProbe ==
    /\ max_concurrent_per_instance = 1
    /\ instances = << >>
    /\ task_queue = << >>
    /\ completed_tasks = << >>
    /\ monitoring = FALSE
    /\ tasks = << >>
    /\ monitor = [g \in Generations |-> NoMonitor]
    /\ worker = [g \in Generations |-> [i \in InstanceIds |-> NoWorker]]
    /\ starts = 0
    /\ joining = FALSE
    /\ now = Epoch
    /\ backend = [i \in InstanceIds |-> "flaky"]
    /\ probe_log = [i \in InstanceIds |-> NoProbe]
    /\ submit_log = << >>
    /\ client = NewClient
    /\ \E answers \in [Tiers -> TierAnswers] :
          wire = [NoWire EXCEPT !.tiers = answers]

\* client.initialize() before the probe
probe_initialize(resp) ==
    /\ client.calls = << >>
    /\ client' = initialize(client, resp)
    /\ UNCHANGED managerVars

\* client.health_check()
probe_health_check ==
    /\ "health_check" \notin {client.calls[k] : k \in 1..Len(client.calls)}
    /\ client' = health_check_tiers(client, wire.tiers)
    /\ UNCHANGED managerVars

NextProbe ==
    \/ \E resp \in InitializeAnswers : probe_initialize(resp)
    \/ probe_health_check

SpecProbe == InitProbe /\ [][NextProbe]_vars

\* the probe has returned
Probed == client.calls # << >> /\ client.calls[Len(client.calls)] = "health_check"

\* the requests of the probe, which begin with its GET
ProbeRequests ==
    LET first == CHOOSE k \in 1..Len(client.sent) : client.sent[k].kind = "GET /"
    IN [k \in 1..(Len(client.sent) - first + 1) |-> client.sent[first + k - 1].kind]

\* the first tier that succeeds, 0 when none does
FirstOk ==
    IF \E k \in Tiers : wire.tiers[k] = "ok"
      THEN CHOOSE k \in Tiers :
              wire.tiers[k] = "ok" /\ \A j \in 1..(k - 1) : wire.tiers[j] # "ok"
      ELSE 0

\* C32: health_check tries its three tiers in order (GET of the base url,
\* initialize, tools/list), returns True at the first tier that succeeds without
\* trying the later ones, returns False exactly when all three fail, and never
\* raises.
C32_TiersInOrder ==
    Probed =>
       /\ ~client.raised
       /\ client.ret = IF FirstOk = 0 THEN "False" ELSE "True"
       /\ ProbeRequests =
             SubSeq(<<"GET /", "initialize", "tools/list">>, 1,
                    IF FirstOk = 0 THEN 3 ELSE FirstOk)

\* C32 witness: the first tier raised, the second succeeded: the probe returned
\* True after two requests, the third tier was not tried although it would have
\* succeeded too.
C32_Witness ==
    /\ Probed
    /\ wire.tiers = <<"raises", "ok", "ok">>
    /\ client.ret = "True"
    /\ ProbeRequests = <<"GET /", "initialize">>

\* the steps of an iteration of dispatcher g of instance id that finds the queue
\* empty: get_nowait() raises Empty (line 613), then the finally clause runs
\* (lines 651-652)
EmptyGet(g, id) ==
    worker[g][id].pc = "get" /\ worker'[g][id].pc = "finally"
        /\ worker'[g][id].task = NoTask
EmptyFinally(g, id) ==
    worker[g][id].pc = "finally" /\ worker[g][id].task = NoTask
        /\ worker'[g][id].pc # "finally"

\* C33: a dispatcher iteration that finds the queue empty claims nothing and
\* leaves active_tasks of its instance unchanged, also when another task is
\* active on that instance.
C33_EmptyIterationIsNeutral ==
    [][ \A g \in Generations : \A id \in Registered :
           (EmptyGet(g, id) \/ EmptyFinally(g, id)) =>
              /\ tasks' = tasks
              /\ task_queue' = task_queue
              /\ instances'[id].active_tasks = instances[id].active_tasks
      ]_vars

\* the dispatchers that have taken task t from the queue (line 613) and have not
\* yet appended it to the log (line 645)
InFlight(t) ==
    {p \in Generations \X InstanceIds :
        worker[p[1]][p[2]].task = t /\ worker[p[1]][p[2]].pc \in {"run", "log"}}

\* C34: every submitted task is in exactly one place: waiting in the queue, held
\* by exactly one dispatcher that is executing it, or in the completed-task log;
\* so the numbers of queued, in-flight and logged tasks add up to the number
\* submitted.
C34_TaskConservation ==
    /\ \A t \in TaskIds :
          Occurrences(task_queue, t) + Cardinality(InFlight(t))
              + Occurrences(completed_tasks, t) = 1
    /\ Len(task_queue) + Cardinality(UNION {InFlight(t) : t \in TaskIds})
          + Len(completed_tasks) = Len(tasks)

\* C34 witness: of three submitted tasks one is logged, one is being executed
\* and one waits in the queue.
C34_Witness ==
    /\ Len(tasks) = 3
    /\ Len(completed_tasks) = 1
    /\ Len(task_queue) = 1
    /\ \E t \in TaskIds : Cardinality(InFlight(t)) = 1

\* the number of tasks in the log with the given status that were assigned to
\* instance id
LoggedFor(id, status) ==
    Cardinality({k \in 1..Len(completed_tasks) :
                    /\ tasks[completed_tasks[k]].status = status
                    /\ tasks[completed_tasks[k]].assigned_instance = id})

\* no dispatcher of instance id is between claiming a task and logging it
Idle(id) ==
    \A g \in Generations : worker[g][id].pc \notin {"run", "log"}

\* C35: whenever the dispatcher of an instance is not in the middle of handling
\* a task, the instance's completed_tasks equals the number of logged tasks with
\* status completed assigned to it, and its failed_tasks the number of logged
\* tasks with status failed assigned to it.
C35_CountersMatchLog ==
    \A id \in Registered :
        Idle(id) =>
           /\ instances[id].completed_tasks = LoggedFor(id, "completed")
           /\ instances[id].failed_tasks = LoggedFor(id, "failed")

\* C35 witness: an idle instance has counted one completed and one failed task.
C35_Witness ==
    \E id \in Registered :
        /\ Idle(id)
        /\ instances[id].completed_tasks = 1
        /\ instances[id].failed_tasks = 1

\* C36: every task in the completed-task log has its start_time and its end_time
\* set, with start_time <= end_time, on whichever path it was completed or
\* failed, a failed dispatch handshake included.
C36_LoggedTasksAreTimed ==
    \A k \in 1..Len(completed_tasks) :
        LET task == tasks[completed_tasks[k]]
        IN /\ task.start_time # NoTime
           /\ task.end_time # NoTime
           /\ task.start_time <= task.end_time

(***************************************************************************)
(* One call of execute_task, for every task of at most two actions and     *)
(* every value its remote calls and storage calls can return.              *)
(***************************************************************************)
InitActions ==
    /\ max_concurrent_per_instance = 1
    /\ instances = << >>
    /\ task_queue = << >>
    /\ completed_tasks = << >>
    /\ monitoring = FALSE
    /\ tasks = << >>
    /\ monitor = [g \in Generations |-> NoMonitor]
    /\ worker = [g \in Generations |-> [i \in InstanceIds |-> NoWorker]]
    /\ starts = 0
    /\ joining = FALSE
    /\ now = Epoch
    /\ backend = [i \in InstanceIds |-> "flaky"]
    /\ probe_log = [i \in InstanceIds |-> NoProbe]
    /\ submit_log = << >>
    /\ client = NewClient
    /\ \E actions \in Shapes(2) :
          \E outs \in [1..Len(actions) -> RemoteOut] :
             \E stores \in StoreOutcomes(actions, outs) :
                wire = [NoWire EXCEPT !.actions = actions, !.outs = outs,
                                      !.stores = stores]

\* result = client.execute_task(task)
wire_execute_task ==
    /\ ~wire.executed
    /\ wire' = [wire EXCEPT !.executed = TRUE,
                            !.result = execute_task(wire.actions, wire.outs,
                                                    wire.stores)]
    /\ UNCHANGED <<max_concurrent_per_instance, instances, task_queue,
                   completed_tasks, monitoring, tasks, monitor, worker, starts,
                   joining, now, backend, probe_log, submit_log, client>>

SpecActions == InitActions /\ [][wire_execute_task]_vars

\* C37: an action that maps to a remote invocation is recorded as succeeded
\* exactly when the client call returned a result other than None: a
\* well-formed, error-free response is not recorded as a failed action, also
\* when its result envelope or tool list is empty.
C37_SucceededIffReturned ==
    wire.executed =>
       \A k \in 1..Len(wire.result.results) :
           wire.actions[k].type \in RemoteKinds =>
              (wire.result.results[k].success <=> wire.outs[k] # "none")

\* the monitor has probed the instance: every probe sets last_check to the time
\* of the probe (line 593)
WasProbed(inst) == inst.last_check # InitialLastCheck

\* C38: once the monitor has probed a registered instance for the first time,
\* its status is healthy or unhealthy for ever: no step of a monitor or of a
\* dispatcher sets the status of an instance back to unknown.
C38_NeverUnknownAgain ==
    /\ [](\A id \in Registered :
             WasProbed(instances[id]) =>
                 instances[id].status \in {"healthy", "unhealthy"})
    /\ [][\A id \in Registered :
             instances[id].status # "unknown" => instances'[id].status # "unknown"
         ]_vars

\* C38 witness: an instance that was healthy, and whose dispatcher has handled
\* a task, has been condemned by later probes.
C38_Witness ==
    \E id \in Registered :
        /\ WasProbed(instances[id])
        /\ instances[id].status = "unhealthy"
        /\ instances[id].completed_tasks + instances[id].failed_tasks > 0

\* the kinds execute_task has a branch for
KnownKinds == RemoteKinds \cup {"wait", "health_check"}

\* C39: an action of a kind that is not one of the known kinds is recorded as a
\* failed action with a diagnostic message, makes the task end failed, and does
\* not stop the remaining actions from being run: the action after it is run
\* and recorded too.
C39_UnknownKindFailsTaskOnly ==
    wire.executed =>
       \A k \in 1..Len(wire.actions) :
           (wire.actions[k].type \notin KnownKinds
              /\ k <= Len(wire.result.results)) =>
                 /\ wire.result.results[k] =
                       [action |-> wire.actions[k].type, success |-> FALSE,
                        data |-> "unknown action type"]
                 /\ ~wire.result.success
                 /\ (k < Len(wire.actions)
                       /\ RequiredKeys(wire.actions[k + 1].type)
                             \subseteq wire.actions[k + 1].keys)
                      => Len(wire.result.results) >= k + 1

\* C39 witness: a task of an unknown action followed by a wait has run both
\* actions and has failed.
C39_Witness ==
    /\ wire.executed
    /\ wire.actions = <<Hover, Wait>>
    /\ Len(wire.result.results) = 2
    /\ wire.result.results[2].success
    /\ ~wire.result.success

=============================================================================
